---- MODULE Spec2Model ----
(***************************************************************************)
(* unique-lines (src/main.py): main() validates the two paths and calls    *)
(* remove_duplicates(), which streams the input file line by line, keeps   *)
(* the digest of every line seen and copies first occurrences to the       *)
(* output file.                                                            *)
(*                                                                         *)
(* Files hold bytes.  The input is opened in text mode (utf-8, universal   *)
(* newlines), so the lines the loop sees are the decoded and newline-      *)
(* translated text; the output is opened in text mode too, so "\n" is      *)
(* written as the platform's line separator.                               *)
(***************************************************************************)
EXTENDS Integers, Sequences, FiniteSets, TLC

\* ---------------------------------------------------------------- bounds
\* Longest input file, in bytes, drawn from the full byte alphabet.
MaxLen == 4
\* Width of the digest in bits (md5 has 128; scaled so that collisions
\* between short lines exist inside the bound).
DigestBits == 4

\* ------------------------------------------------------------ characters
LF == 10
CR == 13
\* Bytes of the input alphabet: "\n", "\r", "a", "b" and the two bytes of
\* the utf-8 encoding of U+0434 (0xD0 0xB4), which are invalid on their own.
Alphabet == {LF, CR, 97, 98, 208, 180}

RECURSIVE SeqsUpTo(_, _)
SeqsUpTo(S, n) ==
    IF n = 0 THEN {<<>>}
    ELSE LET shorter == SeqsUpTo(S, n - 1)
         IN  shorter \cup {Append(s, x) : s \in {t \in shorter : Len(t) = n - 1}, x \in S}

\* The files of spec scenarios A and C ("a\nb\na\nc\nb\n", "x\ny\nz\n").
ScenarioA == <<97, LF, 98, LF, 97, LF, 99, LF, 98, LF>>
ScenarioC == <<120, LF, 121, LF, 122, LF>>
\* "a\r\na\n": the same text with a Windows and a Unix line ending.
ScenarioCrLf == <<97, CR, LF, 97, LF>>

Contents == SeqsUpTo(Alphabet, MaxLen) \cup {ScenarioA, ScenarioC, ScenarioCrLf}
SmallContents == {<<>>, ScenarioA}

\* ------------------------------------------------------- text-mode input
\* codecs utf-8 incremental decoder, final = False, for 1- and 2-byte
\* sequences (the alphabet has no byte above 0xDF).  A lead byte at the very
\* end is kept pending; a continuation byte in lead position, or a lead byte
\* not followed by a continuation byte, is a UnicodeDecodeError.
RECURSIVE Utf8DecodeFrom(_, _, _)
Utf8DecodeFrom(bs, i, acc) ==
    IF i > Len(bs) THEN [ok |-> TRUE, text |-> acc, pending |-> <<>>]
    ELSE IF bs[i] < 128 THEN Utf8DecodeFrom(bs, i + 1, Append(acc, bs[i]))
    ELSE IF bs[i] >= 194 /\ bs[i] <= 223 THEN
        IF i = Len(bs) THEN [ok |-> TRUE, text |-> acc, pending |-> <<bs[i]>>]
        ELSE IF bs[i + 1] >= 128 /\ bs[i + 1] <= 191
             THEN Utf8DecodeFrom(bs, i + 2,
                      Append(acc, (bs[i] - 192) * 64 + (bs[i + 1] - 128)))
             ELSE [ok |-> FALSE, text |-> <<>>, pending |-> <<>>]
    ELSE [ok |-> FALSE, text |-> <<>>, pending |-> <<>>]

Utf8Decode(bs) == Utf8DecodeFrom(bs, 1, <<>>)

\* str.encode('utf-8') for code points below U+0800.
RECURSIVE Utf8Encode(_)
Utf8Encode(text) ==
    IF text = <<>> THEN <<>>
    ELSE LET c == Head(text)
         IN  (IF c < 128 THEN <<c>> ELSE <<192 + (c \div 64), 128 + (c % 64)>>)
             \o Utf8Encode(Tail(text))

\* Translate for a file opened with newline='': nothing is translated.
TranslateNone(text) == text

\* io.IncrementalNewlineDecoder(translate=True): "\r\n" and "\r" become "\n".
RECURSIVE Translate(_)
Translate(text) ==
    IF text = <<>> THEN <<>>
    ELSE IF Head(text) = CR THEN
        IF Len(text) >= 2 /\ text[2] = LF
        THEN <<LF>> \o Translate(Tail(Tail(text)))
        ELSE <<LF>> \o Translate(Tail(text))
    ELSE <<Head(text)>> \o Translate(Tail(text))

\* The decoder on a non-final chunk: a trailing "\r" is held back until the
\* next chunk shows whether "\n" follows it.
NewlineDecode(text) ==
    IF text # <<>> /\ text[Len(text)] = CR
    THEN [out |-> Translate(SubSeq(text, 1, Len(text) - 1)), pendingcr |-> TRUE]
    ELSE [out |-> Translate(text), pendingcr |-> FALSE]

\* The complete lines of a translated text (each ends with "\n") and the
\* unterminated rest.
RECURSIVE SplitLines(_, _, _)
SplitLines(text, cur, acc) ==
    IF text = <<>> THEN [lines |-> acc, rest |-> cur]
    ELSE IF Head(text) = LF
         THEN SplitLines(Tail(text), <<>>, Append(acc, Append(cur, LF)))
         ELSE SplitLines(Tail(text), Append(cur, Head(text)), acc)

\* What iterating over the text-mode input yields for a file that fits in one
\* read chunk: the lines returned by successive next() calls, and whether the
\* iteration then ends in a UnicodeDecodeError instead of StopIteration.
\* The first chunk carries the whole file (final = False); the second, empty
\* chunk is decoded with final = True, which raises on a pending lead byte
\* and releases a held "\r" as "\n".
ReadLines(data) ==
    LET d == Utf8Decode(data)
        n == NewlineDecode(d.text)
        s == SplitLines(n.out, <<>>, <<>>)
        tail == s.rest \o (IF n.pendingcr THEN <<LF>> ELSE <<>>)
    IN  IF ~d.ok THEN [lines |-> <<>>, fail |-> TRUE]
        ELSE IF d.pending # <<>> THEN [lines |-> s.lines, fail |-> TRUE]
        ELSE [lines |-> s.lines \o (IF tail = <<>> THEN <<>> ELSE <<tail>>),
              fail |-> FALSE]

\* ------------------------------------------------------------ the digest
\* hashlib.md5(bytes).digest(), scaled to DigestBits bits: a deterministic
\* fixed-width function of all the bytes, terminator included, that is not
\* injective.
RECURSIVE HashFrom(_, _)
HashFrom(bs, h) ==
    IF bs = <<>> THEN h
    ELSE HashFrom(Tail(bs), (h * 5 + Head(bs)) % (2 ^ DigestBits))

md5(bs) == HashFrom(bs, 0)

\* line 35: hashlib.md5(line.encode('utf-8')).digest()
LineHash(line) == md5(Utf8Encode(line))

\* ------------------------------------------------------ text-mode output
\* WriteBytes with the line written without its terminator.
RECURSIVE WriteBytesStripped(_, _)
WriteBytesStripped(line, sep) ==
    IF line = <<>> THEN <<>>
    ELSE (IF Head(line) = LF THEN <<>> ELSE Utf8Encode(<<Head(line)>>))
         \o WriteBytesStripped(Tail(line), sep)

\* TextIOWrapper.write with newline=None: "\n" is written as os.linesep.
RECURSIVE WriteBytes(_, _)
WriteBytes(line, sep) ==
    IF line = <<>> THEN <<>>
    ELSE (IF Head(line) = LF THEN sep ELSE Utf8Encode(<<Head(line)>>))
         \o WriteBytes(Tail(line), sep)

\* ------------------------------------------------------------ file system
\* "nodir/b.txt" lies in a directory that does not exist; "c.txt" is the
\* output of a second invocation.
Paths == {"a.txt", "b.txt", "c.txt", "nodir/b.txt"}

Absent == [kind |-> "absent", data |-> <<>>, readable |-> TRUE, writable |-> TRUE]
File(data, r, w) == [kind |-> "file", data |-> data, readable |-> r, writable |-> w]
Dir == [kind |-> "dir", data |-> <<>>, readable |-> TRUE, writable |-> TRUE]

ParentExists(p) == p # "nodir/b.txt"

\* os.path.exists
Exists(f, p) == f[p].kind # "absent"

\* open(p, 'r'): the exception it raises, or "ok".
OpenRead(f, p) ==
    IF f[p].kind = "absent" THEN "FileNotFoundError"
    ELSE IF f[p].kind = "dir" THEN "IsADirectoryError"
    ELSE IF ~f[p].readable THEN "PermissionError"
    ELSE "ok"

\* open(p, 'w'): the exception it raises, or "ok".
OpenWrite(f, p) ==
    IF ~ParentExists(p) THEN "FileNotFoundError"
    ELSE IF f[p].kind = "dir" THEN "IsADirectoryError"
    ELSE IF f[p].kind = "file" /\ ~f[p].writable THEN "PermissionError"
    ELSE "ok"

\* Truncate for a file opened in mode 'a': an existing file keeps its bytes.
TruncateKeep(f, p) ==
    [f EXCEPT ![p] = File(f[p].data, IF f[p].kind = "file" THEN f[p].readable ELSE TRUE, TRUE)]

\* The effect of a successful open(p, 'w'): the file is created or truncated.
Truncate(f, p) ==
    [f EXCEPT ![p] = File(<<>>, IF f[p].kind = "file" THEN f[p].readable ELSE TRUE, TRUE)]

\* ------------------------------------------------------------ the prompt
\* str.lower() on the letters the answers use (Latin and Cyrillic capitals).
LowerChar(c) ==
    IF (c >= 65 /\ c <= 90) \/ (c >= 1040 /\ c <= 1071) THEN c + 32 ELSE c

Lower(s) == [i \in 1..Len(s) |-> LowerChar(s[i])]

\* line 111: ['y', 'yes', 'д', 'да']
Accepted == {<<121>>, <<121, 101, 115>>, <<1076>>, <<1076, 1072>>}

\* Answers typed at the prompt: y, Y, yes, YES, д, Д, да, ДА, n, no, the
\* empty line, " y", "ye".
Responses ==
    {<<121>>, <<89>>, <<121, 101, 115>>, <<89, 69, 83>>, <<1076>>, <<1044>>,
     <<1076, 1072>>, <<1044, 1040>>, <<110>>, <<110, 111>>, <<>>, <<32, 121>>,
     <<121, 101>>}

\* ------------------------------------------------------------------ state
VARIABLES
    fs,               \* path -> file
    linesep,          \* os.linesep, as bytes
    input_file,       \* main: input_file
    output_file,      \* main: output_file
    pc,               \* position of the process
    exit_code,        \* process exit status, -1 while running
    printed,          \* messages printed so far
    exc,              \* exception raised inside remove_duplicates
    seen_hashes,      \* remove_duplicates: seen_hashes
    unique_count,     \* remove_duplicates: unique_count
    duplicate_count,  \* remove_duplicates: duplicate_count
    f_in,             \* the input iterator
    result,           \* the tuple returned by remove_duplicates, <<>> if none
    run,              \* 1: first invocation, 2: invocation on its own output
    first,            \* outcome of the first invocation
    fs0,              \* history: the file system when the invocation started
    read,             \* history: lines the loop has been given
    written,          \* history: lines passed to f_out.write
    kept,             \* history: which of the lines read were written
    called,           \* history: remove_duplicates was invoked
    answer            \* history: what happened at the overwrite prompt

vars == <<fs, linesep, input_file, output_file, pc, exit_code, printed, exc,
          seen_hashes, unique_count, duplicate_count, f_in, result, run, first,
          fs0, read, written, kept, called, answer>>

NoExc == [type |-> "none", on |-> "none"]
NoAnswer == [kind |-> "none", text |-> <<>>]
Closed == [loaded |-> FALSE, lines |-> <<>>, fail |-> FALSE]
NoFirst == [unique |-> 0, duplicate |-> 0, data |-> <<>>]

\* The input file is drawn from every byte string up to MaxLen when the paths
\* are the plain case (readable input, fresh output), and from SmallContents
\* under the other arrangements of the two paths.
Init ==
    /\ linesep \in {<<LF>>, <<CR, LF>>}
    /\ input_file = "a.txt"
    /\ output_file \in {"b.txt", "a.txt", "nodir/b.txt"}
    /\ \E data \in Contents :
       \E a \in {File(data, TRUE, TRUE), File(data, FALSE, TRUE), Absent, Dir},
          b \in {Absent, File(<<98, LF>>, TRUE, TRUE), File(<<98, LF>>, TRUE, FALSE), Dir} :
         /\ (data \in SmallContents
               \/ (a = File(data, TRUE, TRUE) /\ b = Absent /\ output_file = "b.txt"))
         /\ (a.kind # "file" => data = <<>>)
         /\ (output_file # "b.txt" => b = Absent)
         /\ fs = [p \in Paths |-> IF p = "a.txt" THEN a
                                  ELSE IF p = "b.txt" THEN b ELSE Absent]
    /\ pc = "main"
    /\ exit_code = -1
    /\ printed = <<>>
    /\ exc = NoExc
    /\ seen_hashes = {}
    /\ unique_count = 0
    /\ duplicate_count = 0
    /\ f_in = Closed
    /\ result = <<>>
    /\ run = 1
    /\ first = NoFirst
    /\ fs0 = fs
    /\ read = <<>>
    /\ written = <<>>
    /\ kept = {}
    /\ called = FALSE
    /\ answer = NoAnswer

locals == <<seen_hashes, unique_count, duplicate_count, f_in, read, written, kept>>
core == <<locals, result>>
args == <<linesep, input_file, output_file, run, first, fs0>>

\* sys.exit(code) after printing msg
Exit(code, msg) ==
    /\ pc' = "exit"
    /\ exit_code' = code
    /\ printed' = Append(printed, msg)

\* ------------------------------------------------------------------- main
\* lines 104-106: the existence check on the input.
CheckInput ==
    /\ pc = "main"
    /\ IF ~Exists(fs, input_file)
       THEN Exit(1, "input does not exist")
       ELSE pc' = "check_output" /\ UNCHANGED <<exit_code, printed>>
    /\ UNCHANGED <<fs, exc, core, args, called, answer>>

\* line 109: is there an output file already?
CheckOutput ==
    /\ pc = "check_output"
    /\ pc' = IF Exists(fs, output_file) THEN "prompt" ELSE "call"
    /\ UNCHANGED <<fs, exit_code, printed, exc, core, args, called, answer>>

\* Prompt with the sys.exit(0) of line 113 left out.
PromptFallsThrough(r) ==
    /\ pc = "prompt"
    /\ pc' = "call"
    /\ printed' = IF Lower(r) \notin Accepted THEN Append(printed, "cancelled") ELSE printed
    /\ answer' = [kind |-> "reply", text |-> r]
    /\ UNCHANGED <<fs, exit_code, exc, core, args, called>>

\* lines 110-113: the overwrite prompt, answered with r.
Prompt(r) ==
    /\ pc = "prompt"
    /\ IF Lower(r) \notin Accepted
       THEN Exit(0, "cancelled")
       ELSE pc' = "call" /\ UNCHANGED <<exit_code, printed>>
    /\ answer' = [kind |-> "reply", text |-> r]
    /\ UNCHANGED <<fs, exc, core, args, called>>

\* line 110: input() on a closed stdin raises EOFError, which nothing
\* catches: traceback, exit status 1.
PromptEOF ==
    /\ pc = "prompt"
    /\ Exit(1, "traceback")
    /\ answer' = [kind |-> "eof", text |-> <<>>]
    /\ UNCHANGED <<fs, exc, core, args, called>>

\* Another process removes the input file between main's check and the open.
EnvRemoveInput ==
    /\ pc \in {"call", "core"}
    /\ fs[input_file].kind = "file"
    /\ fs' = [fs EXCEPT ![input_file] = Absent]
    /\ UNCHANGED <<pc, exit_code, printed, exc, core, args, called, answer>>

\* --------------------------------------------------- remove_duplicates
\* lines 46-54: the except clause that catches exception type t, and the
\* message it prints.
Handler(t) ==
    IF t = "FileNotFoundError" THEN "input file not found"
    ELSE IF t = "PermissionError" THEN "permission denied"
    ELSE "processing error"

\* Raise with a handler that prints the message and returns the counts so far.
RaiseSwallowed(t, on) ==
    /\ exc' = [type |-> t, on |-> on]
    /\ printed' = Append(printed, Handler(t))
    /\ result' = <<unique_count, duplicate_count>>
    /\ pc' = "report"
    /\ UNCHANGED exit_code

\* An exception of type t raised on the given stream inside the try block:
\* its handler prints the message and calls sys.exit(1); nothing is returned.
Raise(t, on) ==
    /\ exc' = [type |-> t, on |-> on]
    /\ Exit(1, Handler(t))
    /\ UNCHANGED result

\* OpenBoth with the two open calls in the other order.
OpenBothOutputFirst(f, i, o) ==
    IF OpenWrite(f, o) # "ok" THEN [type |-> OpenWrite(f, o), on |-> "output", fs |-> f]
    ELSE IF OpenRead(Truncate(f, o), i) # "ok"
         THEN [type |-> OpenRead(Truncate(f, o), i), on |-> "input", fs |-> Truncate(f, o)]
    ELSE [type |-> "ok", on |-> "none", fs |-> Truncate(f, o)]

\* lines 30-31: the with statement opens the input, then the output.  The
\* exception raised and the stream it is raised on, and the file system left.
OpenBoth(f, i, o) ==
    IF OpenRead(f, i) # "ok" THEN [type |-> OpenRead(f, i), on |-> "input", fs |-> f]
    ELSE IF OpenWrite(f, o) # "ok" THEN [type |-> OpenWrite(f, o), on |-> "output", fs |-> f]
    ELSE [type |-> "ok", on |-> "none", fs |-> Truncate(f, o)]

\* line 115: main announces the pass.
Announce ==
    /\ pc = "call"
    /\ pc' = "core"
    /\ printed' = Append(printed, "processing")
    /\ UNCHANGED <<fs, exit_code, exc, core, args, called, answer>>

\* lines 116 and 25-31: the routine is called, resets its locals and opens
\* the two files.
Call ==
    /\ pc = "core"
    /\ called' = TRUE
    /\ seen_hashes' = {}
    /\ unique_count' = 0
    /\ duplicate_count' = 0
    /\ LET o == OpenBoth(fs, input_file, output_file)
       IN  /\ fs' = o.fs
           /\ IF o.type # "ok"
              THEN Raise(o.type, o.on)
              ELSE pc' = "loop" /\ UNCHANGED <<exc, exit_code, printed, result>>
    /\ UNCHANGED <<f_in, read, written, kept, args, answer>>

\* line 33, first next(f_in): the reader fetches its first chunk, which is
\* the file as it is now.
ReadChunk ==
    /\ pc = "loop"
    /\ ~f_in.loaded
    /\ LET r == ReadLines(fs[input_file].data)
       IN  f_in' = [loaded |-> TRUE, lines |-> r.lines, fail |-> r.fail]
    /\ UNCHANGED <<fs, pc, exit_code, printed, exc, seen_hashes, unique_count,
                   duplicate_count, result, read, written, kept, args, called, answer>>

\* Dedup with "seen_hashes.add(line_hash)" left out.
DedupNoAdd(h, seen, u, d) ==
    IF h \notin seen
    THEN [write |-> TRUE, seen |-> seen, unique |-> u + 1, duplicate |-> d]
    ELSE [write |-> FALSE, seen |-> seen, unique |-> u, duplicate |-> d + 1]

\* Dedup with "f_out.write(line)" outside the if: every line is written.
DedupWriteAlways(h, seen, u, d) ==
    IF h \notin seen
    THEN [write |-> TRUE, seen |-> seen \cup {h}, unique |-> u + 1, duplicate |-> d]
    ELSE [write |-> TRUE, seen |-> seen, unique |-> u, duplicate |-> d + 1]

\* Dedup with the else branch counting nothing.
DedupNoDupCount(h, seen, u, d) ==
    IF h \notin seen
    THEN [write |-> TRUE, seen |-> seen \cup {h}, unique |-> u + 1, duplicate |-> d]
    ELSE [write |-> FALSE, seen |-> seen, unique |-> u, duplicate |-> d]

\* lines 37-42: the decision on a line with digest h, given the digests seen
\* and the two counters.
Dedup(h, seen, u, d) ==
    IF h \notin seen
    THEN [write |-> TRUE, seen |-> seen \cup {h}, unique |-> u + 1, duplicate |-> d]
    ELSE [write |-> FALSE, seen |-> seen, unique |-> u, duplicate |-> d + 1]

\* lines 33-42: one iteration of the loop on the next line.
ProcessLine ==
    /\ pc = "loop"
    /\ f_in.loaded
    /\ f_in.lines # <<>>
    /\ LET line == Head(f_in.lines)
           line_hash == LineHash(line)
           r == Dedup(line_hash, seen_hashes, unique_count, duplicate_count)
       IN  /\ f_in' = [f_in EXCEPT !.lines = Tail(f_in.lines)]
           /\ read' = Append(read, line)
           /\ seen_hashes' = r.seen
           /\ unique_count' = r.unique
           /\ duplicate_count' = r.duplicate
           /\ IF r.write
              THEN /\ fs' = [fs EXCEPT ![output_file].data = @ \o WriteBytes(line, linesep)]
                   /\ written' = Append(written, line)
                   /\ kept' = kept \cup {Len(read) + 1}
              ELSE UNCHANGED <<fs, written, kept>>
    /\ UNCHANGED <<pc, exit_code, printed, exc, result, args, called, answer>>

\* line 33: next(f_in) raises UnicodeDecodeError (lines 52-54 catch it).
DecodeFault ==
    /\ pc = "loop"
    /\ f_in.loaded
    /\ f_in.lines = <<>>
    /\ f_in.fail
    /\ Raise("UnicodeDecodeError", "input")
    /\ UNCHANGED <<fs, locals, args, called, answer>>

\* lines 33-38: the device fails under a read or a write (OSError; lines
\* 52-54 catch it).
IOFault ==
    /\ pc = "loop"
    /\ \E on \in {"input", "output"} : Raise("OSError", on)
    /\ UNCHANGED <<fs, locals, args, called, answer>>

\* line 44: the input is exhausted; both files are closed and the counts
\* returned.
Return ==
    /\ pc = "loop"
    /\ f_in.loaded
    /\ f_in.lines = <<>>
    /\ ~f_in.fail
    /\ result' = <<unique_count, duplicate_count>>
    /\ pc' = "report"
    /\ UNCHANGED <<fs, exit_code, printed, exc, seen_hashes, unique_count,
                   duplicate_count, f_in, read, written, kept, args, called, answer>>

\* lines 118-121: the success report; the process ends with status 0.
Report ==
    /\ pc = "report"
    /\ Exit(0, "done")
    /\ UNCHANGED <<fs, exc, core, args, called, answer>>

\* The program is run again, on the output of a first successful run, with a
\* fresh output path.
RunAgain ==
    /\ pc = "exit"
    /\ run = 1
    /\ exit_code = 0
    /\ result # <<>>
    /\ run' = 2
    /\ first' = [unique |-> result[1], duplicate |-> result[2],
                 data |-> fs[output_file].data]
    /\ input_file' = output_file
    /\ output_file' = "c.txt"
    /\ fs0' = fs
    /\ pc' = "main"
    /\ exit_code' = -1
    /\ printed' = <<>>
    /\ exc' = NoExc
    /\ seen_hashes' = {}
    /\ unique_count' = 0
    /\ duplicate_count' = 0
    /\ f_in' = Closed
    /\ result' = <<>>
    /\ read' = <<>>
    /\ written' = <<>>
    /\ kept' = {}
    /\ called' = FALSE
    /\ answer' = NoAnswer
    /\ UNCHANGED <<fs, linesep>>

Next ==
    \/ CheckInput
    \/ CheckOutput
    \/ \E r \in Responses : Prompt(r)
    \/ PromptEOF
    \/ EnvRemoveInput
    \/ Announce
    \/ Call
    \/ ReadChunk
    \/ ProcessLine
    \/ DecodeFault
    \/ IOFault
    \/ Return
    \/ Report
    \/ RunAgain

Spec == Init /\ [][Next]_vars

\* ================================================================ claims
Last(q) == q[Len(q)]

\* The indices of the first occurrences in a sequence of lines: those whose
\* digest no earlier line has.
FirstOccurrences(lines) ==
    {i \in 1..Len(lines) :
        \A j \in 1..(i - 1) : LineHash(lines[j]) # LineHash(lines[i])}

\* The subsequence of lines at the indices in K, in order.
RECURSIVE Pick(_, _, _)
Pick(lines, K, i) ==
    IF i > Len(lines) THEN <<>>
    ELSE (IF i \in K THEN <<lines[i]>> ELSE <<>>) \o Pick(lines, K, i + 1)

\* The bytes of a sequence of lines written one after the other.
RECURSIVE Concat(_, _)
Concat(lines, sep) ==
    IF lines = <<>> THEN <<>>
    ELSE WriteBytes(Head(lines), sep) \o Concat(Tail(lines), sep)

\* C1: after a successful pass the lines written are exactly the lines read
\* that no earlier line shares a digest with, in input order; the lines read
\* are the lines of the input file and the lines written are the output file.
C1_FirstOccurrencesInOrder ==
    result # <<>> =>
        /\ read = ReadLines(fs[input_file].data).lines
        /\ kept = FirstOccurrences(read)
        /\ written = Pick(read, kept, 1)
        /\ fs[output_file].data = Concat(written, linesep)

\* Scenario A has run: five lines read, the third and fifth dropped.
C1_Witness ==
    /\ result = <<3, 2>>
    /\ fs0[input_file].data = ScenarioA
    /\ kept = {1, 2, 4}

C2_CountInv ==
    /\ unique_count + duplicate_count = Len(read)
    /\ unique_count = Cardinality(kept)
    /\ result # <<>> =>
          /\ result = <<unique_count, duplicate_count>>
          /\ result[1] + result[2] = Len(ReadLines(fs[input_file].data).lines)

C2_CountStep ==
    (read' # read /\ run' = run) =>
        /\ Len(read') = Len(read) + 1
        /\ \/ unique_count' = unique_count + 1 /\ duplicate_count' = duplicate_count
           \/ unique_count' = unique_count /\ duplicate_count' = duplicate_count + 1

\* C2: at every point the two counters add up to the number of lines read,
\* every line read adds one to exactly one of them, and the pair returned
\* adds up to the number of lines of the input.
C2_CountsAddUp == []C2_CountInv /\ [][C2_CountStep]_vars

\* A pass has returned with both counters above zero.
C2_Witness == result # <<>> /\ result[1] > 0 /\ result[2] > 0

\* C3: at every point no two lines written are the same text, and none are
\* the same bytes in the output file.
C3_NoDuplicateWritten ==
    \A i, j \in 1..Len(written) :
        i < j => /\ written[i] # written[j]
                 /\ WriteBytes(written[i], linesep) # WriteBytes(written[j], linesep)

\* In the middle of a pass: two lines written, one dropped, more to come.
C3_Witness ==
    /\ pc = "loop"
    /\ Len(written) >= 2
    /\ duplicate_count >= 1
    /\ f_in.lines # <<>>

\* C4: a second run on the output of a first successful run returns the
\* first run's unique count and no duplicates, and writes the same bytes.
C4_Idempotent ==
    (run = 2 /\ result # <<>>) =>
        /\ result[1] = first.unique
        /\ result[2] = 0
        /\ fs[output_file].data = first.data
        /\ fs[input_file].data = first.data

\* The second run has returned after a first run that dropped duplicates and
\* wrote at least two lines.
C4_Witness ==
    /\ run = 2
    /\ result # <<>>
    /\ first.duplicate > 0
    /\ first.unique >= 2

\* The lines of a decoded text with the terminators they have in the file:
\* "\r\n", "\r", "\n", or none for an unterminated last line.
RECURSIVE RawLines(_, _, _)
RawLines(text, cur, acc) ==
    IF text = <<>> THEN (IF cur = <<>> THEN acc ELSE Append(acc, cur))
    ELSE IF Head(text) = CR /\ Len(text) >= 2 /\ text[2] = LF
         THEN RawLines(Tail(Tail(text)), <<>>, Append(acc, cur \o <<CR, LF>>))
    ELSE IF Head(text) \in {CR, LF}
         THEN RawLines(Tail(text), <<>>, Append(acc, Append(cur, Head(text))))
    ELSE RawLines(Tail(text), Append(cur, Head(text)), acc)

IsEnding(c) == c \in {CR, LF}
NotEnding(c) == c \notin {CR, LF}
Content(raw) == SelectSeq(raw, NotEnding)
Terminated(raw) == SelectSeq(raw, IsEnding) # <<>>

\* The raw lines of the input file of a pass that returned.
InputRaw == RawLines(Utf8Decode(fs[input_file].data).text, <<>>, <<>>)

InputMissing ==
    \/ ~Exists(fs0, input_file)
    \/ called /\ ~Exists(fs, input_file)

\* C6: when the input path does not exist the process ends with status 1 and
\* a not-found message, nothing is returned, and no other path is created,
\* truncated or written.
C6_MissingInputLeavesOutput ==
    (pc = "exit" /\ InputMissing) =>
        /\ exit_code = 1
        /\ result = <<>>
        /\ written = <<>>
        /\ \A p \in Paths \ {input_file} : fs[p] = fs0[p]
        /\ IF called
           THEN exc = [type |-> "FileNotFoundError", on |-> "input"]
                /\ Last(printed) = "input file not found"
           ELSE exc = NoExc /\ Last(printed) = "input does not exist"

\* The input vanished between the check and the open, with an output file that
\* existed and held data.
C6_Witness ==
    /\ pc = "exit"
    /\ called
    /\ ~Exists(fs, input_file)
    /\ input_file # output_file
    /\ fs0[output_file].kind = "file"
    /\ fs[output_file].data # <<>>

\* An answer that is y, yes, д or да in any letter case.
IsYes(t) ==
    \E a \in Accepted :
        /\ Len(a) = Len(t)
        /\ \A i \in 1..Len(t) : t[i] = a[i] \/ t[i] + 32 = a[i]

\* C7: the routine is invoked only when the input existed and, if the output
\* existed, the user answered yes; after any other answer the routine is never
\* invoked, no file is changed and the process ends with status 0.
C7_CallOnlyAfterChecks ==
    /\ called =>
          /\ Exists(fs0, input_file)
          /\ Exists(fs0, output_file) => (answer.kind = "reply" /\ IsYes(answer.text))
    /\ (answer.kind = "reply" /\ ~IsYes(answer.text)) =>
          /\ ~called
          /\ pc = "exit"
          /\ exit_code = 0
          /\ fs = fs0
          /\ result = <<>>
          /\ Last(printed) = "cancelled"

\* The user answered " y" over an existing output file.
C7_Witness ==
    /\ answer = [kind |-> "reply", text |-> <<32, 121>>]
    /\ pc = "exit"
    /\ input_file # output_file
    /\ fs[output_file].data # <<>>

\* C8 as stated: the "input file not found" report is printed only when the
\* input path cannot be opened for reading.
C8_NotFoundOnlyForInput ==
    (pc = "exit" /\ called /\ Last(printed) = "input file not found") =>
        OpenRead(fs, input_file) # "ok"

C9_FailureInv ==
    exc # NoExc =>
        /\ pc = "exit"
        /\ exit_code = 1
        /\ result = <<>>
        /\ \A k \in 1..Len(printed) : printed[k] # "done"
        /\ Last(printed) = Handler(exc.type)

\* C9: after any failure in the routine nothing is returned, the success
\* report is never printed, the exit status is 1, and the process takes no
\* further step.
C9_FailureIsFatal == []C9_FailureInv /\ [][exc = NoExc]_vars

\* A decoding error after a line had been counted.
C9_Witness ==
    /\ exc = [type |-> "UnicodeDecodeError", on |-> "input"]
    /\ unique_count > 0
    /\ pc = "exit"

\* C10: when input and output are the same file, once the routine has opened
\* it the file is empty, no line is ever read, the routine returns (0, 0) and
\* the process reports success.
C10_SameFileLosesContent ==
    (input_file = output_file /\ called /\ exc = NoExc) =>
        /\ answer.kind = "reply"
        /\ fs[input_file].data = <<>>
        /\ read = <<>>
        /\ f_in.lines = <<>>
        /\ ~f_in.fail
        /\ pc \in {"loop", "report", "exit"}
        /\ result # <<>> => result = <<0, 0>>
        /\ pc = "exit" => (exit_code = 0 /\ Last(printed) = "done")

\* The run over Scenario A in place has ended in success with the file empty.
C10_Witness ==
    /\ input_file = output_file
    /\ pc = "exit"
    /\ exit_code = 0
    /\ result = <<0, 0>>
    /\ fs0[input_file].data = ScenarioA
    /\ fs[input_file].data = <<>>

====
